---- MODULE Spec2Model ----
(***************************************************************************)
(* Model of the two get_indexes implementations of np_rw_buffer:           *)
(*                                                                         *)
(*   src/src/circular_indexes.c          slice-or-array get_indexes        *)
(*   src/np_rw_buffer/_circular_indexes.c  tuple-returning get_indexes     *)
(*                                                                         *)
(* Both are called on the same three arguments.  Every statement of the    *)
(* two functions is one step of the state machine, so that the order of    *)
(* validation, allocation and element writes is visible.  C `int` values   *)
(* keep their 32-bit width; the places where C leaves the behaviour        *)
(* undefined (signed overflow, `%` by zero, the uninitialised upper half   *)
(* of a long long) are nondeterministic over the outcomes a build shows.   *)
(***************************************************************************)
EXTENDS Integers, Sequences, FiniteSets

VARIABLES start, length, maxsize,          \* the three parsed arguments
          pc, end, dims, arr, data, i, result, err,   \* circular_indexes.c
          tpc, ti, titems, tresult         \* _circular_indexes.c

vars == <<start, length, maxsize, pc, end, dims, arr, data, i, result, err,
          tpc, ti, titems, tresult>>

argvars == <<start, length, maxsize>>
avars == <<pc, end, dims, arr, data, i, result, err>>
tvars == <<tpc, ti, titems, tresult>>

-----------------------------------------------------------------------------
(* Bounds of the explored argument space *)

MaxStart == 4
MaxLen == 5
MaxSize == 3

(* INT_MAX of the C `int` that holds start, length, maxsize, end and i *)
MaxInt == 2147483647
MinInt == -MaxInt - 1

NegArgs == {-2, -1}
Starts == NegArgs \cup (0..MaxStart) \cup {MaxInt - 1, MaxInt}
Lengths == {-1} \cup (0..MaxLen)
Maxsizes == {-1} \cup (0..MaxSize)

-----------------------------------------------------------------------------
(* C integer arithmetic *)

\* a + b would leave the range of a 32-bit int (computed without leaving it)
AddOverflows(a, b) ==
    \/ a > 0 /\ b > 0 /\ a > MaxInt - b
    \/ a < 0 /\ b < 0 /\ a < MinInt - b

\* the two's-complement sum a + b modulo 2^32, as a signed 32-bit value
Add32(a, b) ==
    IF ~AddOverflows(a, b) THEN a + b
    ELSE IF a > 0 THEN ((a - MaxInt) - 1) + ((b - MaxInt) - 1)
    ELSE ((a + MaxInt) + 1) + ((b + MaxInt) + 1)

\* Signed overflow is undefined: a wrapping build yields Add32, a trapping
\* build aborts the process.
AddOutcomes(a, b) ==
    IF AddOverflows(a, b)
    THEN {[ok |-> TRUE, v |-> Add32(a, b)], [ok |-> FALSE, v |-> 0]}
    ELSE {[ok |-> TRUE, v |-> a + b]}

\* C's a % b for b # 0: the remainder of the division truncated toward zero
CRem(a, b) ==
    LET bb == IF b < 0 THEN -b ELSE b
        r == IF a >= 0 THEN a % bb
             ELSE IF a = MinInt THEN ((MaxInt % bb) + 1) % bb
             ELSE (-a) % bb
    IN IF a >= 0 THEN r ELSE -r

\* a % 0 and INT_MIN % -1 are undefined: the division traps (x86) or the
\* remainder is computed from a quotient of 0 resp. INT_MIN (ARM).
RemOutcomes(a, b) ==
    IF b = 0 THEN {[ok |-> FALSE, v |-> 0], [ok |-> TRUE, v |-> a]}
    ELSE IF a = MinInt /\ b = -1 THEN {[ok |-> FALSE, v |-> 0], [ok |-> TRUE, v |-> 0]}
    ELSE {[ok |-> TRUE, v |-> CRem(a, b)]}

-----------------------------------------------------------------------------
(* Results *)

NoResult == [kind |-> "none", begin |-> 0, end |-> 0, step |-> 0, data |-> <<>>]

\* PySlice_New(PyLong_FromLong(b), PyLong_FromLong(e), PyLong_FromLong(1))
Slice(b, e) == [kind |-> "slice", begin |-> b, end |-> e, step |-> 1, data |-> <<>>]

\* the NPY_INT32 array handed back to the caller
Array(d) == [kind |-> "array", begin |-> 0, end |-> 0, step |-> 0, data |-> d]

-----------------------------------------------------------------------------
(* State after the arguments have been parsed into the C variables *)

Init ==
    /\ start \in Starts
    /\ length \in Lengths
    /\ maxsize \in Maxsizes
    /\ pc = "check_length"
    /\ end = 0
    /\ dims = 0
    /\ arr = "NULL"
    /\ data = <<>>
    /\ i = 0
    /\ result = NoResult
    /\ err = "none"
    /\ tpc = "read_args"
    /\ ti = 0
    /\ titems = <<>>
    /\ tresult = [kind |-> "none", items |-> <<>>]

-----------------------------------------------------------------------------
(* src/src/circular_indexes.c : get_indexes *)

LengthInvalidOffByOne(l) == l < -1

\* if(length < 0)
LengthInvalid(l) == l < 0

CheckLength ==
    /\ pc = "check_length"
    /\ IF LengthInvalid(length)
       THEN /\ err' = "ValueError_length"
            /\ pc' = "done"
       ELSE /\ pc' = "compute_end"
            /\ UNCHANGED err
    /\ UNCHANGED <<end, dims, arr, data, i, result>>
    /\ UNCHANGED <<argvars, tvars>>

\* end = start + length;
ComputeEnd ==
    /\ pc = "compute_end"
    /\ \E o \in AddOutcomes(start, length) :
          IF o.ok
          THEN end' = o.v /\ pc' = "test_slice"
          ELSE pc' = "crashed" /\ UNCHANGED end
    /\ UNCHANGED <<dims, arr, data, i, result, err>>
    /\ UNCHANGED <<argvars, tvars>>

SliceWillWorkStrict(e, m) == e < m

\* if(end <= maxsize)
SliceWillWork(e, m) == e <= m

TestSlice ==
    /\ pc = "test_slice"
    /\ IF SliceWillWork(end, maxsize)
       THEN /\ result' = Slice(start, end)
            /\ pc' = "done"
       ELSE /\ pc' = "alloc"
            /\ UNCHANGED result
    /\ UNCHANGED <<end, dims, arr, data, i, err>>
    /\ UNCHANGED <<argvars, tvars>>

\* dims[0] = length; arr = PyArray_SimpleNew(1, dims, NPY_INT32);
\* the allocation may fail, which is reported as a ValueError
Alloc ==
    /\ pc = "alloc"
    /\ dims' = length
    /\ \E ok \in BOOLEAN :
          IF ok
          THEN /\ arr' = "array"
               /\ pc' = "fill"
               /\ UNCHANGED err
          ELSE /\ arr' = "NULL"
               /\ err' = "ValueError_alloc"
               /\ pc' = "done"
    /\ UNCHANGED <<end, data, i, result>>
    /\ UNCHANGED <<argvars, tvars>>

\* for(i=0; i < length; i++){ data[i] = (start + i) % maxsize; }  return arr;
\* data holds the elements written so far (data[0] .. data[i-1])
Fill ==
    /\ pc = "fill"
    /\ IF i < length
       THEN \E s \in AddOutcomes(start, i) :
               IF ~s.ok
               THEN pc' = "crashed" /\ UNCHANGED <<data, i, result>>
               ELSE \E r \in RemOutcomes(s.v, maxsize) :
                       IF ~r.ok
                       THEN pc' = "crashed" /\ UNCHANGED <<data, i, result>>
                       ELSE /\ data' = Append(data, r.v)
                            /\ i' = i + 1
                            /\ UNCHANGED <<pc, result>>
       ELSE /\ result' = Array(data)
            /\ pc' = "done"
            /\ UNCHANGED <<data, i>>
    /\ UNCHANGED <<end, dims, arr, err>>
    /\ UNCHANGED <<argvars, tvars>>

-----------------------------------------------------------------------------
(* src/np_rw_buffer/_circular_indexes.c : get_indexes *)

\* long long start, length, maxsize are filled through the "iii" format,
\* which stores a 4-byte int into each: the other four bytes are never
\* written.  Either they happen to extend the int (the variable then holds
\* the argument's value) or the variable holds some value outside the
\* 32-bit range, which leaves the call's outcome indeterminate.
UpperHalves == {"extends", "other"}

TReadArgs ==
    /\ tpc = "read_args"
    /\ \E h \in UpperHalves :
          IF h = "extends"
          THEN tpc' = "new" /\ UNCHANGED tresult
          ELSE tpc' = "done" /\ tresult' = [kind |-> "indeterminate", items |-> <<>>]
    /\ UNCHANGED <<ti, titems>>
    /\ UNCHANGED <<argvars, avars>>

\* result = PyTuple_New(length); if(result == NULL) return NULL;
TNew ==
    /\ tpc = "new"
    /\ IF length < 0
       THEN tpc' = "done" /\ tresult' = [kind |-> "error", items |-> <<>>]
       ELSE tpc' = "loop" /\ UNCHANGED tresult
    /\ UNCHANGED <<ti, titems>>
    /\ UNCHANGED <<argvars, avars>>

\* PyTuple_SetItem(result, i, PyLong_FromLongLong((start % maxsize) + i));
\* The item is the long long value base + off; it is kept as the pair
\* because the sum may exceed the 32-bit range.
TItem(s, m, k) == {[base |-> r.v, off |-> k] : r \in {o \in RemOutcomes(s, m) : o.ok}}

TLoop ==
    /\ tpc = "loop"
    /\ IF ti < length
       THEN \/ /\ \E o \in RemOutcomes(start, maxsize) : ~o.ok
               /\ tpc' = "crashed"
               /\ UNCHANGED <<ti, titems, tresult>>
            \/ \E it \in TItem(start, maxsize, ti) :
                  /\ titems' = Append(titems, it)
                  /\ ti' = ti + 1
                  /\ UNCHANGED <<tpc, tresult>>
       ELSE /\ tresult' = [kind |-> "tuple", items |-> titems]
            /\ tpc' = "done"
            /\ UNCHANGED <<ti, titems>>
    /\ UNCHANGED <<argvars, avars>>

-----------------------------------------------------------------------------

Next ==
    \/ CheckLength
    \/ ComputeEnd
    \/ TestSlice
    \/ Alloc
    \/ Fill
    \/ TReadArgs
    \/ TNew
    \/ TLoop

Spec == Init /\ [][Next]_vars

-----------------------------------------------------------------------------
(* Vocabulary of the properties *)

\* the arguments meet the documented contract
Pre == start >= 0 /\ length >= 0 /\ maxsize > 0

\* the slice-or-array call has returned an object to the caller
Returned == pc = "done" /\ result.kind \in {"slice", "array"}

\* the call has ended without running out of memory
Ended == pc = "done" /\ err # "ValueError_alloc"

\* (s + k) mod m for k = 0 .. l-1 with the non-negative modulo, m > 0
Expected(s, l, m) == [k \in 1..l |-> ((s % m) + (k - 1)) % m]

\* the physical positions a result denotes, read in order
Positions(r) ==
    IF r.kind = "slice"
    THEN IF r.end <= r.begin THEN <<>>
         ELSE [k \in 1..(r.end - r.begin) |-> r.begin + (k - 1)]
    ELSE r.data

\* how often position p occurs in the sequence d
Occurrences(p, d) == Cardinality({k \in 1..Len(d) : d[k] = p})

\* what get_indexes computes with unbounded integers: s + l <= m decides
IdealResult(s, l, m) ==
    IF s <= m - l THEN Slice(s, s + l) ELSE Array(Expected(s, l, m))

\* the long long values of the tuple's items equal the sequence e
TupleDenotes(items, e) ==
    /\ Len(items) = Len(e)
    /\ \A k \in 1..Len(items) : items[k].base = e[k] - items[k].off

-----------------------------------------------------------------------------
(* C1: for start >= 0, length >= 0 and capacity > 0 the positions denoted  *)
(* by the returned slice or index array, read in order, are exactly        *)
(* (start + i) mod capacity for i = 0 .. length-1.                         *)
C1_RoundTrip ==
    (Pre /\ Ended) =>
        /\ result.kind \in {"slice", "array"}
        /\ Positions(result) = Expected(start, length, maxsize)

(* C2: for start >= 0, length >= 0 and capacity > 0 every array element    *)
(* and the begin bound of a slice lie in [0, capacity), and the end bound  *)
(* of a slice lies in [0, capacity].                                       *)
C2_ValuesInRange ==
    (Pre /\ Returned) =>
        IF result.kind = "slice"
        THEN /\ 0 <= result.begin /\ result.begin < maxsize
             /\ 0 <= result.end /\ result.end <= maxsize
        ELSE \A k \in 1..Len(result.data) :
                0 <= result.data[k] /\ result.data[k] < maxsize

(* C3: for start >= 0, length >= 0 and capacity > 0 the call returns the   *)
(* slice (start mod capacity, start mod capacity + length, 1) exactly when *)
(* start mod capacity + length <= capacity, and an index array otherwise.  *)
C3_SliceIffFits ==
    (Pre /\ Ended) =>
        LET es == start % maxsize
        IN IF es + length <= maxsize
           THEN result = Slice(es, es + length)
           ELSE result.kind = "array"

(* C4: every call with capacity <= 0 fails with an invalid-argument error  *)
(* and produces no output.                                                 *)
C4_NonPositiveCapacityRejected ==
    (maxsize <= 0 /\ pc = "done") =>
        /\ err \in {"ValueError_length", "ValueError_capacity"}
        /\ result.kind = "none"

(* C5: every call with length < 0 fails with the ValueError for the        *)
(* length, and does so before the slice is built, before the array is      *)
(* allocated and before any element is written.                            *)
C5_NegativeLengthRejectedFirst ==
    length < 0 =>
        /\ pc \in {"check_length", "done"}
        /\ pc = "done" => err = "ValueError_length"
        /\ result.kind = "none"
        /\ arr = "NULL"
        /\ data = <<>>

C5_Witness == length < 0 /\ pc = "done" /\ err = "ValueError_length"

(* C6: a call with start < 0 (length >= 0, capacity > 0) either fails or   *)
(* returns only non-negative slice bounds and array elements, the          *)
(* positions being the non-negative modulo of start + i by capacity.       *)
C6_NegativeStartNeverNegativePosition ==
    (start < 0 /\ length >= 0 /\ maxsize > 0 /\ pc = "done") =>
        \/ err # "none" /\ result.kind = "none"
        \/ /\ result.kind \in {"slice", "array"}
           /\ result.kind = "slice" => (result.begin >= 0 /\ result.end >= 0)
           /\ \A k \in 1..Len(result.data) : result.data[k] >= 0
           /\ Positions(result) = Expected(start, length, maxsize)

C8_MultiWrapCounts ==
    (Pre /\ length > maxsize /\ Ended) =>
        /\ result.kind = "array"
        /\ Len(result.data) = length
        /\ \A p \in 0..(maxsize - 1) :
              Occurrences(p, result.data) \in
                  {length \div maxsize, (length + maxsize - 1) \div maxsize}

(* C9: for start >= 0, length >= 0 and maxsize > 0 the tuple returned by   *)
(* the tuple variant has exactly length elements, the i-th being           *)
(* (start + i) mod maxsize, and denotes the same positions in the same     *)
(* order as the result of the slice-or-array variant.                      *)
C9_TupleIsCircular ==
    (Pre /\ tpc = "done" /\ tresult.kind = "tuple") =>
        /\ Len(tresult.items) = length
        /\ TupleDenotes(tresult.items, Expected(start, length, maxsize))
        /\ Returned => TupleDenotes(tresult.items, Positions(result))

(* C10: for start, length in [0, 2^31) and capacity in (0, 2^31) the call  *)
(* computed with 32-bit integers (sums taken modulo 2^32) returns what the *)
(* computation with unbounded integers returns: the same path and the same *)
(* positions, never a slice with a wrapped end bound.                      *)
C10_NoOverflowEffect ==
    (Pre /\ Ended) => result = IdealResult(start, length, maxsize)

====
